---- MODULE Spec2Model ----
(***************************************************************************)
(* QuickCommerce API: the FastAPI handlers of main.py and the lazily       *)
(* initialised store handle of supabase_client.py.                         *)
(*                                                                         *)
(* Conventions.  A Python Optional value is None == <<>> or Some(v) ==     *)
(* <<v>>.  Text that is lower-cased or searched (product names, q) is a    *)
(* sequence of one-character strings; other text is a TLA+ string.  Prices *)
(* are in cents.  The remote store is the environment: its tables are      *)
(* variables, and every remote call either is executed by the store or is  *)
(* rejected, in which case the client raises and the handler ends in an    *)
(* unhandled error (HTTP 500).  A response is [status, body] with a record  *)
(* as body; the JSON list of /api/products is the field products of its    *)
(* body.                                                                   *)
(***************************************************************************)
EXTENDS Integers, Sequences, FiniteSets

VARIABLES
    env,              \* os.environ: the three configuration strings
    _supabase,        \* supabase_client._supabase
    clients,          \* number of create_client invocations so far
    assigns,          \* number of assignments to _supabase so far
    orders,           \* remote table orders (sequence of rows)
    order_items,      \* remote table order_items (sequence of rows)
    rider_locations,  \* remote table rider_locations (set of rows)
    req,              \* the request handled last
    resp,             \* its response
    calls,            \* the remote calls it issued, in order
    firstGot,         \* history: result of the first get_supabase() call
    lastGot,          \* history: result of the latest get_supabase() call
    everSet,          \* history: some configuration string was non-empty
    lastLoc,          \* history: per rider, the row of the latest executed upsert
    replaced,         \* history: per rider, an executed upsert replaced another row
    pc,               \* per thread: position inside get_supabase()
    local,            \* per thread: url, key and the created client
    ret               \* per thread: what its latest get_supabase() returned

vars == <<env, _supabase, clients, assigns, orders, order_items,
          rider_locations, req, resp, calls, firstGot, lastGot, everSet,
          lastLoc, replaced, pc, local, ret>>

storeVars == <<orders, order_items, rider_locations>>
threadVars == <<pc, local, ret>>

----------------------------------------------------------------------------
(* Bounds *)

MaxOrders == 2      \* header rows the orders table may hold
MaxItems == 2       \* longest cart
LimitBound == 2     \* limit ranges over -LimitBound..LimitBound (and 50)
WindowSlack == 2    \* delivery windows range this far around [10, 20] (and -1, 0, 5, 30)
NThreads == 2       \* concurrent callers of get_supabase()

----------------------------------------------------------------------------
(* Values *)

None == <<>>
Some(v) == <<v>>

Min(a, b) == IF a < b THEN a ELSE b
Max(a, b) == IF a > b THEN a ELSE b

\* Python truthiness of an Optional[str]: None and "" are falsy.
Truthy(o) == o # None /\ o[1] # ""

\* Python truthiness of an Optional text given as a character sequence.
TruthyText(o) == o # None /\ o[1] # <<>>

\* a or b
PyOr(a, b) == IF Truthy(a) THEN a ELSE b

UpperCase == <<"A","B","C","D","E","F","G","H","I","J","K","L","M",
               "N","O","P","Q","R","S","T","U","V","W","X","Y","Z">>
LowerCase == <<"a","b","c","d","e","f","g","h","i","j","k","l","m",
               "n","o","p","q","r","s","t","u","v","w","x","y","z">>

\* str.lower() on one character
LowerChar(c) ==
    IF \E i \in 1..Len(UpperCase) : UpperCase[i] = c
    THEN LowerCase[CHOOSE i \in 1..Len(UpperCase) : UpperCase[i] = c]
    ELSE c

\* str.lower()
Lower(s) == [i \in 1..Len(s) |-> LowerChar(s[i])]

\* needle in hay
Contains(needle, hay) ==
    \E off \in 0..(Len(hay) - Len(needle)) :
        \A k \in 1..Len(needle) : hay[off + k] = needle[k]

\* s[:n]
SliceTo(s, n) ==
    IF n >= 0 THEN SubSeq(s, 1, Min(n, Len(s)))
    ELSE SubSeq(s, 1, Max(Len(s) + n, 0))

----------------------------------------------------------------------------
(* supabase_client.py *)

EnvNames == {"SUPABASE_URL", "SUPABASE_SERVICE_ROLE_KEY", "SUPABASE_ANON_KEY"}

EnvValues(n) ==
    IF n = "SUPABASE_URL" THEN {None, Some("https://db")}
    ELSE IF n = "SUPABASE_SERVICE_ROLE_KEY" THEN {None, Some(""), Some("service")}
    ELSE {None, Some("anon")}

AllEnvValues == UNION {EnvValues(n) : n \in EnvNames}

Envs == {e \in [EnvNames -> AllEnvValues] : \A n \in EnvNames : e[n] \in EnvValues(n)}

\* line 13
EnvUrl(e) == e["SUPABASE_URL"]

\* line 14
EnvKey(e) == PyOr(e["SUPABASE_SERVICE_ROLE_KEY"], e["SUPABASE_ANON_KEY"])

\* line 15, negated
Configured(e) == Truthy(EnvUrl(e)) /\ Truthy(EnvKey(e))

\* create_client(url, key): a new client object, the n-th of the process
CreateClient(url, key, n) == [url |-> url, key |-> key, id |-> n]

\* get_supabase() without the test of line 11
GetSupabaseIgnoringCache(sb, e, n) ==
    IF ~Configured(e) THEN None
    ELSE Some(CreateClient(EnvUrl(e)[1], EnvKey(e)[1], n + 1))

\* get_supabase() run without interruption: the value of _supabase after the
\* call, which is also what the call returns.
GetSupabase(sb, e, n) ==
    IF sb # None THEN sb
    ELSE IF ~Truthy(EnvUrl(e)) \/ ~Truthy(EnvKey(e)) THEN None
    ELSE Some(CreateClient(EnvUrl(e)[1], EnvKey(e)[1], n + 1))

----------------------------------------------------------------------------
(* main.py: helpers *)

\* a demo_mode() that never reports demo mode
DemoModeNever(sb, e, n) == FALSE

\* demo_mode()
DemoMode(sb, e, n) == GetSupabase(sb, e, n) = None

Ok(body) == [status |-> 200, body |-> body]
HttpError(code, detail) == [status |-> code, body |-> [detail |-> detail]]

\* HTTPException(501) of ensure_supabase
ConfigurationMissing ==
    HttpError(501, "Supabase not configured. Set SUPABASE_URL and SUPABASE_SERVICE_ROLE_KEY in environment.")

\* an exception of the remote client that no handler catches
ServerError == HttpError(500, "Internal Server Error")

\* One remote call, as the handler issued it; arg is a record of its arguments
\* and ok tells whether the store executed it.  The handlers below take the
\* outcome of each call they may issue as a parameter; a handler that issues
\* no call is given TRUE.
Call(table, op, arg, ok) == [table |-> table, op |-> op, arg |-> arg, ok |-> ok]

----------------------------------------------------------------------------
(* main.py: the gateway calls every handler makes *)

\* get_supabase() as called by demo_mode()
Sb1 == GetSupabase(_supabase, env, clients)

\* create_client invocations after that call
N1 == IF _supabase = None /\ Sb1 # None THEN clients + 1 ELSE clients

\* the handler's `if demo_mode():`
Demo == DemoMode(_supabase, env, clients)

\* get_supabase() as called by ensure_supabase(); None stands for the raise
Sb2 == GetSupabase(Sb1, env, N1)

N2 == IF Sb1 = None /\ Sb2 # None THEN N1 + 1 ELSE N1

\* A store-dependent handler calls demo_mode() and, when that is false,
\* ensure_supabase().
Gateway ==
    LET after == IF Demo THEN Sb1 ELSE Sb2
        n == IF Demo THEN N1 ELSE N2
    IN  /\ _supabase' = after
        /\ clients' = n
        /\ assigns' = assigns + (n - clients)
        /\ firstGot' = IF firstGot = None THEN Some(Sb1) ELSE firstGot
        /\ lastGot' = Some(after)

\* test_env calls demo_mode() only.
GatewayOnce ==
    /\ _supabase' = Sb1
    /\ clients' = N1
    /\ assigns' = assigns + (N1 - clients)
    /\ firstGot' = IF firstGot = None THEN Some(Sb1) ELSE firstGot
    /\ lastGot' = Some(Sb1)

----------------------------------------------------------------------------
(* main.py: /test *)

TestEnvBody ==
    [backend |-> "Running",
     supabase |-> IF ~Demo THEN "Configured" ELSE "Not Configured (demo mode)",
     SUPABASE_URL |-> Truthy(env["SUPABASE_URL"])]

TestEnv ==
    /\ GatewayOnce
    /\ req' = [op |-> "test_env"]
    /\ resp' = Ok(TestEnvBody)
    /\ calls' = <<>>
    /\ UNCHANGED <<env, everSet, lastLoc, replaced, storeVars, threadVars>>

----------------------------------------------------------------------------
(* main.py: /api/products *)

Bananas == <<"B","a","n","a","n","a","s">>
Milk1L == <<"M","i","l","k"," ","1","L">>
BrownBread == <<"B","r","o","w","n"," ","B","r","e","a","d">>

Product(id, name, sku, category, price, image_url, stock, seller_id) ==
    [id |-> id, name |-> name, sku |-> sku, category |-> category,
     price |-> price, image_url |-> image_url, stock |-> stock,
     seller_id |-> seller_id]

\* lines 98-102, each passed through Product(**p)
sample ==
    << Product("1", Bananas, Some("BN-1"), Some("Fruits"), 99,
               Some("https://images.unsplash.com/photo-1571772805064-207c8435df79?w=400"), 120, None),
       Product("2", Milk1L, Some("ML-1L"), Some("Dairy"), 149,
               Some("https://images.unsplash.com/photo-1580910051074-3eb694886505?w=400"), 32, None),
       Product("3", BrownBread, Some("BR-01"), Some("Bakery"), 199,
               Some("https://images.unsplash.com/photo-1608198093002-ad4e005484ec?w=400"), 8, None) >>

\* match without the two lower() calls
matchCaseSensitive(p, q, category) ==
    /\ TruthyText(q) => Contains(q[1], p.name)
    /\ Truthy(category) => p.category = category

\* lines 104-110
match(p, q, category) ==
    /\ TruthyText(q) => Contains(Lower(q[1]), Lower(p.name))
    /\ Truthy(category) => p.category = category

\* line 111
ListProductsDemo(q, category, limit) ==
    SliceTo(SelectSeq(sample, LAMBDA p : match(p, q, category)), limit)

\* The remote table products: one row of each shape the mapping tolerates.
RemoteRow(id, name, title, category, price, stock, quantity) ==
    [id |-> id, name |-> name, title |-> title, sku |-> None,
     category |-> category, price |-> price, image_url |-> None,
     stock |-> stock, quantity |-> quantity, seller_id |-> None]

RemoteProducts ==
    << RemoteRow(7, Some(BrownBread), None, Some("Bakery"), Some(199), Some(8), None),
       RemoteRow(8, None, Some(Milk1L), Some("Dairy"), None, None, Some(3)),
       RemoteRow(9, None, None, None, None, None, None) >>

\* x or y or dflt, on Optional fields of a row
Coalesce(x, y, dflt) == IF x # None THEN x[1] ELSE IF y # None THEN y[1] ELSE dflt

\* str(row.get("id"))
StrOfId(n) == IF n = 7 THEN "7" ELSE IF n = 8 THEN "8" ELSE "9"

\* lines 123-132
ProductOfRow(row) ==
    Product(StrOfId(row.id), Coalesce(row.name, row.title, <<"I","t","e","m">>),
            row.sku, row.category, Coalesce(row.price, None, 0), row.image_url,
            Coalesce(row.stock, row.quantity, 0), row.seller_id)

\* lines 114-119: ilike("name", %q%), eq("category", category), limit(limit)
RemoteSelectProducts(q, category, limit) ==
    LET rows == SelectSeq(RemoteProducts, LAMBDA r :
                /\ TruthyText(q) => (r.name # None /\ Contains(Lower(q[1]), Lower(r.name[1])))
                /\ Truthy(category) => r.category = category)
    IN  SubSeq(rows, 1, Min(limit, Len(rows)))

\* lines 113-133; the store rejects a negative limit
ListProductsLive(q, category, limit, ok) ==
    LET executed == ok /\ limit >= 0
        data == RemoteSelectProducts(q, category, limit)
        c == Call("products", "select", [q |-> q, category |-> category, limit |-> limit], executed)
    IN  [calls |-> <<c>>,
         resp |-> IF executed
                  THEN Ok([products |-> [i \in 1..Len(data) |-> ProductOfRow(data[i])]])
                  ELSE ServerError]

ListProducts(q, category, limit, ok) ==
    LET live == ListProductsLive(q, category, limit, ok)
    IN  /\ Gateway
        /\ req' = [op |-> "list_products", q |-> q, category |-> category, limit |-> limit]
        /\ resp' = IF Demo THEN Ok([products |-> ListProductsDemo(q, category, limit)])
                   ELSE IF Sb2 = None THEN ConfigurationMissing
                   ELSE live.resp
        /\ calls' = IF Demo \/ Sb2 = None THEN <<>> ELSE live.calls
        /\ Demo => ok
        /\ UNCHANGED <<env, everSet, lastLoc, replaced, storeVars, threadVars>>

----------------------------------------------------------------------------
(* main.py: /api/inventory/update *)

\* lines 140-143; adjust_stock is a stored procedure of the remote store,
\* reported here by the call alone
UpdateInventoryLive(product_id, delta, ok) ==
    [calls |-> <<Call("adjust_stock", "rpc", [p_id |-> product_id, delta |-> delta], ok)>>,
     resp |-> IF ok THEN Ok([status |-> "ok", result |-> None]) ELSE ServerError]

UpdateInventory(product_id, delta, ok) ==
    LET live == UpdateInventoryLive(product_id, delta, ok)
    IN  /\ Gateway
        /\ req' = [op |-> "update_inventory", product_id |-> product_id, delta |-> delta]
        /\ resp' = IF Demo THEN Ok([status |-> "ok", demo |-> TRUE])
                   ELSE IF Sb2 = None THEN ConfigurationMissing
                   ELSE live.resp
        /\ calls' = IF Demo \/ Sb2 = None THEN <<>> ELSE live.calls
        /\ Demo => ok
        /\ UNCHANGED <<env, everSet, lastLoc, replaced, storeVars, threadVars>>

----------------------------------------------------------------------------
(* main.py: /api/orders *)

EtaMin == 10
EtaMax == 20

\* line 155 without the max
etaUnclampedBelow(w) == Min(EtaMax, w)

\* line 155
eta_minutes(w) == Max(EtaMin, Min(EtaMax, w))

\* lines 152-157
CreateOrderDemo(payload) ==
    Ok([status |-> "ok", order_id |-> "demo-123",
        eta_minutes |-> eta_minutes(payload.delivery_window_minutes),
        tracking |-> [status |-> "PENDING", rider |-> None]])

\* The identifiers the store assigns to header rows, in order of insertion.
OrderIdNames == <<"ord-1", "ord-2", "ord-3", "ord-4", "ord-5", "ord-6">>

\* insert(...).select("id"): the id the store gives the next header row
NewOrderId(tbl) == OrderIdNames[Len(tbl) + 1]

\* lines 159-165, as stored under the assigned id
OrderRow(id, payload) ==
    [id |-> id, user_id |-> payload.user_id, address |-> payload.address,
     coordinates |-> payload.coordinates,
     payment_method |-> payload.payment_method, status |-> "PENDING"]

\* lines 169-172 stopping one item short
OrderItemRowsDropLast(order_id, items) ==
    [k \in 1..(Len(items) - 1) |->
        [order_id |-> order_id, product_id |-> items[k].product_id,
         quantity |-> items[k].quantity]]

\* lines 169-172
OrderItemRows(order_id, items) ==
    [k \in 1..Len(items) |->
        [order_id |-> order_id, product_id |-> items[k].product_id,
         quantity |-> items[k].quantity]]

\* create_order with a compensating delete of the header
CreateOrderLiveRollback(payload, ok1, ok2) ==
    LET id == NewOrderId(orders)
        row == OrderRow(id, payload)
        items == OrderItemRows(id, payload.items)
        c1 == Call("orders", "insert", [row |-> row], ok1)
        c2 == Call("order_items", "insert", [rows |-> items], ok2)
    IN  IF ~ok1
        THEN [resp |-> ServerError, calls |-> <<c1>>,
              orders |-> orders, order_items |-> order_items]
        ELSE IF items = <<>>
        THEN [resp |-> Ok([status |-> "ok", order_id |-> id]), calls |-> <<c1>>,
              orders |-> Append(orders, row), order_items |-> order_items]
        ELSE IF ~ok2
        THEN [resp |-> ServerError, calls |-> <<c1, c2>>,
              orders |-> orders, order_items |-> order_items]
        ELSE [resp |-> Ok([status |-> "ok", order_id |-> id]), calls |-> <<c1, c2>>,
              orders |-> Append(orders, row), order_items |-> order_items \o items]

\* lines 158-175; ok1 and ok2 say whether the store executes the header
\* insert and the items insert
CreateOrderLive(payload, ok1, ok2) ==
    LET id == NewOrderId(orders)
        row == OrderRow(id, payload)
        items == OrderItemRows(id, payload.items)
        c1 == Call("orders", "insert", [row |-> row], ok1)
        c2 == Call("order_items", "insert", [rows |-> items], ok2)
    IN  IF ~ok1
        THEN [resp |-> ServerError, calls |-> <<c1>>,
              orders |-> orders, order_items |-> order_items]
        ELSE IF items = <<>>
        THEN [resp |-> Ok([status |-> "ok", order_id |-> id]), calls |-> <<c1>>,
              orders |-> Append(orders, row), order_items |-> order_items]
        ELSE IF ~ok2
        THEN [resp |-> ServerError, calls |-> <<c1, c2>>,
              orders |-> Append(orders, row), order_items |-> order_items]
        ELSE [resp |-> Ok([status |-> "ok", order_id |-> id]), calls |-> <<c1, c2>>,
              orders |-> Append(orders, row), order_items |-> order_items \o items]

CreateOrder(payload, ok1, ok2) ==
    LET live == CreateOrderLive(payload, ok1, ok2)
        isLive == ~Demo /\ Sb2 # None
    IN  /\ isLive => Len(orders) < MaxOrders
        /\ ~isLive => (ok1 /\ ok2)
        /\ (isLive /\ (~ok1 \/ payload.items = <<>>)) => ok2
        /\ Gateway
        /\ req' = [op |-> "create_order", payload |-> payload]
        /\ resp' = IF Demo THEN CreateOrderDemo(payload)
                   ELSE IF Sb2 = None THEN ConfigurationMissing
                   ELSE live.resp
        /\ calls' = IF isLive THEN live.calls ELSE <<>>
        /\ orders' = IF isLive THEN live.orders ELSE orders
        /\ order_items' = IF isLive THEN live.order_items ELSE order_items
        /\ UNCHANGED <<env, everSet, lastLoc, replaced, rider_locations, threadVars>>

DemoEta == 12

\* get_order without the test of line 184
GetOrderLiveEmptyOk(order_id, ok) ==
    LET rows == SelectSeq(orders, LAMBDA r : r.id = order_id)
    IN  [calls |-> <<Call("orders", "select", [id |-> order_id], ok)>>,
         resp |-> IF ~ok THEN ServerError ELSE Ok([rows |-> rows])]

\* lines 182-186; single() yields the one matching row, or no data
GetOrderLive(order_id, ok) ==
    LET rows == SelectSeq(orders, LAMBDA r : r.id = order_id)
        order == IF Len(rows) = 1 THEN Some(rows[1]) ELSE None
    IN  [calls |-> <<Call("orders", "select", [id |-> order_id], ok)>>,
         resp |-> IF ~ok THEN ServerError
                  ELSE IF order = None THEN HttpError(404, "Order not found")
                  ELSE Ok(order[1])]

GetOrder(order_id, ok) ==
    LET live == GetOrderLive(order_id, ok)
    IN  /\ Gateway
        /\ req' = [op |-> "get_order", order_id |-> order_id]
        /\ resp' = IF Demo
                   THEN Ok([order_id |-> order_id, status |-> "OUT_FOR_DELIVERY",
                            eta_minutes |-> DemoEta])
                   ELSE IF Sb2 = None THEN ConfigurationMissing
                   ELSE live.resp
        /\ calls' = IF Demo \/ Sb2 = None THEN <<>> ELSE live.calls
        /\ Demo => ok
        /\ UNCHANGED <<env, everSet, lastLoc, replaced, storeVars, threadVars>>

----------------------------------------------------------------------------
(* main.py: /api/rider/location *)

\* a plain insert
UpsertAsInsert(tbl, row) == tbl \cup {row}

\* upsert(row, on_conflict="rider_id")
Upsert(tbl, row) == {r \in tbl : r.rider_id # row.rider_id} \cup {row}

\* lines 210-213
UpsertRiderLocationLive(loc, ok) ==
    [calls |-> <<Call("rider_locations", "upsert", [row |-> loc], ok)>>,
     resp |-> IF ok THEN Ok([status |-> "ok", data |-> <<loc>>]) ELSE ServerError,
     rider_locations |-> IF ok THEN Upsert(rider_locations, loc) ELSE rider_locations]

UpsertRiderLocation(loc, ok) ==
    LET live == UpsertRiderLocationLive(loc, ok)
        isLive == ~Demo /\ Sb2 # None
    IN  /\ Gateway
        /\ req' = [op |-> "upsert_rider_location", loc |-> loc]
        /\ resp' = IF Demo THEN Ok([status |-> "ok", demo |-> TRUE])
                   ELSE IF Sb2 = None THEN ConfigurationMissing
                   ELSE live.resp
        /\ calls' = IF isLive THEN live.calls ELSE <<>>
        /\ rider_locations' = IF isLive THEN live.rider_locations ELSE rider_locations
        /\ lastLoc' = IF isLive /\ ok THEN [lastLoc EXCEPT ![loc.rider_id] = Some(loc)]
                      ELSE lastLoc
        /\ replaced' = IF isLive /\ ok /\ lastLoc[loc.rider_id] \notin {None, Some(loc)}
                       THEN [replaced EXCEPT ![loc.rider_id] = TRUE]
                       ELSE replaced
        /\ Demo => ok
        /\ UNCHANGED <<env, everSet, orders, order_items, threadVars>>

----------------------------------------------------------------------------
(* The process environment *)

\* A configuration string is set, changed or removed while the process runs.
SetEnv(n, v) ==
    /\ v # env[n]
    /\ env' = [env EXCEPT ![n] = v]
    /\ everSet' = (everSet \/ Truthy(v))
    /\ UNCHANGED <<_supabase, clients, assigns, storeVars, req, resp, calls,
                   firstGot, lastGot, lastLoc, replaced, threadVars>>

----------------------------------------------------------------------------
(* supabase_client.py, statement by statement, for concurrent callers *)

Threads == 1..NThreads

Goto(t, label) == pc' = [pc EXCEPT ![t] = label]

threadFrame ==
    <<env, everSet, storeVars, req, resp, calls, firstGot, lastGot, lastLoc, replaced>>

\* a request handler calls get_supabase()
Enter(t) ==
    /\ pc[t] = "idle"
    /\ Goto(t, "L11")
    /\ UNCHANGED <<_supabase, clients, assigns, local, ret, threadFrame>>

\* line 11: if _supabase is not None
CheckCached(t) ==
    /\ pc[t] = "L11"
    /\ Goto(t, IF _supabase # None THEN "L12" ELSE "L13")
    /\ UNCHANGED <<_supabase, clients, assigns, local, ret, threadFrame>>

\* line 12: return _supabase
ReturnCached(t) ==
    /\ pc[t] = "L12"
    /\ ret' = [ret EXCEPT ![t] = Some(_supabase)]
    /\ Goto(t, "idle")
    /\ UNCHANGED <<_supabase, clients, assigns, local, threadFrame>>

\* line 13
ReadUrl(t) ==
    /\ pc[t] = "L13"
    /\ local' = [local EXCEPT ![t].url = EnvUrl(env)]
    /\ Goto(t, "L14")
    /\ UNCHANGED <<_supabase, clients, assigns, ret, threadFrame>>

\* line 14
ReadKey(t) ==
    /\ pc[t] = "L14"
    /\ local' = [local EXCEPT ![t].key = EnvKey(env)]
    /\ Goto(t, "L15")
    /\ UNCHANGED <<_supabase, clients, assigns, ret, threadFrame>>

\* lines 15-16
CheckConfig(t) ==
    /\ pc[t] = "L15"
    /\ IF ~Truthy(local[t].url) \/ ~Truthy(local[t].key)
       THEN /\ ret' = [ret EXCEPT ![t] = Some(None)]
            /\ Goto(t, "idle")
       ELSE /\ ret' = ret
            /\ Goto(t, "L17")
    /\ UNCHANGED <<_supabase, clients, assigns, local, threadFrame>>

\* line 17, right-hand side: create_client(url, key)
Create(t) ==
    /\ pc[t] = "L17"
    /\ local' = [local EXCEPT ![t].client =
                    Some(CreateClient(local[t].url[1], local[t].key[1], clients + 1))]
    /\ clients' = clients + 1
    /\ Goto(t, "L17store")
    /\ UNCHANGED <<_supabase, assigns, ret, threadFrame>>

\* line 17, the store to the global
Assign(t) ==
    /\ pc[t] = "L17store"
    /\ _supabase' = local[t].client
    /\ assigns' = assigns + 1
    /\ Goto(t, "L18")
    /\ UNCHANGED <<clients, local, ret, threadFrame>>

\* line 18: return _supabase
ReturnNew(t) ==
    /\ pc[t] = "L18"
    /\ ret' = [ret EXCEPT ![t] = Some(_supabase)]
    /\ Goto(t, "idle")
    /\ UNCHANGED <<_supabase, clients, assigns, local, threadFrame>>

----------------------------------------------------------------------------
(* Inputs *)

Bread == <<"b","r","e","a","d">>

\* q: absent, empty, "bread" in several letter cases, and other fragments
Qs == {None, Some(<<>>), Some(Bread), Some(<<"B","R","E","A","D">>),
       Some(<<"b","R","e","A","d">>), Some(<<"B">>), Some(<<"L">>)}

Categories == {None, Some(""), Some("Dairy"), Some("dairy")}

DefaultLimit == 50

Limits == ((0 - LimitBound)..LimitBound) \cup {DefaultLimit}

Windows == ((EtaMin - WindowSlack)..(EtaMax + WindowSlack)) \cup {-1, 0, 5, 30}

CartItemAt(k) == [product_id |-> IF k % 2 = 1 THEN "p1" ELSE "p2", quantity |-> k]

\* carts of 0..MaxItems items (CartItem.quantity >= 1)
Carts == {[k \in 1..n |-> CartItemAt(k)] : n \in 0..MaxItems}

Payloads(users, carts, windows) ==
    {[user_id |-> u, address |-> "12 Main St", coordinates |-> None,
      items |-> c, payment_method |-> "COD", delivery_window_minutes |-> w] :
        u \in users, c \in carts, w \in windows}

OrderIds == {OrderIdNames[k] : k \in 1..(MaxOrders + 1)}

Riders == {"r1", "r2"}

Locs ==
    {[rider_id |-> r, order_id |-> None, lon |-> 0, lat |-> 0,
      speed |-> None, heading |-> None] : r \in Riders}
    \cup {[rider_id |-> r, order_id |-> Some("ord-1"), lon |-> 1, lat |-> 2,
           speed |-> Some(3), heading |-> Some(90)] : r \in Riders}

----------------------------------------------------------------------------
(* Specifications *)

InitWith(e) ==
    /\ env = e
    /\ _supabase = None
    /\ clients = 0
    /\ assigns = 0
    /\ orders = <<>>
    /\ order_items = <<>>
    /\ rider_locations = {}
    /\ req = [op |-> "none"]
    /\ resp = [status |-> 0, body |-> [detail |-> "no request yet"]]
    /\ calls = <<>>
    /\ firstGot = None
    /\ lastGot = None
    /\ everSet = (\E n \in EnvNames : Truthy(e[n]))
    /\ lastLoc = [r \in Riders |-> None]
    /\ replaced = [r \in Riders |-> FALSE]
    /\ pc = [t \in Threads |-> "idle"]
    /\ local = [t \in Threads |-> [url |-> None, key |-> None, client |-> None]]
    /\ ret = [t \in Threads |-> None]

\* The whole service handling one request at a time, while the environment
\* may change under it.
Init == \E e \in Envs : InitWith(e)

OneItemCart == <<CartItemAt(1)>>

Next ==
    \/ \E n \in EnvNames : \E v \in EnvValues(n) : SetEnv(n, v)
    \/ TestEnv
    \/ \E q \in {None, Some(Bread)}, ok \in BOOLEAN :
          ListProducts(q, None, DefaultLimit, ok)
    \/ \E ok \in BOOLEAN : UpdateInventory("1", -1, ok)
    \/ \E p \in Payloads({None}, {OneItemCart}, {15}), ok1, ok2 \in BOOLEAN :
          CreateOrder(p, ok1, ok2)
    \/ \E id \in {OrderIdNames[1], "missing"}, ok \in BOOLEAN : GetOrder(id, ok)
    \/ \E loc \in {l \in Locs : l.rider_id = "r1"}, ok \in BOOLEAN :
          UpsertRiderLocation(loc, ok)

Spec == Init /\ [][Next]_vars

\* The order service of a process whose environment stays as it started.
NextOrders ==
    \/ \E p \in Payloads({None, Some("u1")}, Carts, {15}), ok1, ok2 \in BOOLEAN :
          CreateOrder(p, ok1, ok2)
    \/ \E id \in OrderIds \cup {"missing"}, ok \in BOOLEAN : GetOrder(id, ok)

SpecOrders == Init /\ [][NextOrders]_vars

\* The rider location service of such a process.
NextRider ==
    \E loc \in Locs, ok \in BOOLEAN : UpsertRiderLocation(loc, ok)

SpecRider == Init /\ [][NextRider]_vars

\* An unconfigured process: the demo functions over wide inputs.
InitDemo == \E e \in {x \in Envs : ~Configured(x)} : InitWith(e)

NextDemo ==
    \/ \E q \in Qs, c \in Categories, l \in Limits : ListProducts(q, c, l, TRUE)
    \/ \E p \in Payloads({None}, {OneItemCart}, Windows) : CreateOrder(p, TRUE, TRUE)

SpecDemo == InitDemo /\ [][NextDemo]_vars

\* Request handlers calling get_supabase() concurrently.
NextThreads ==
    \E t \in Threads :
        \/ Enter(t)
        \/ CheckCached(t)
        \/ ReturnCached(t)
        \/ ReadUrl(t)
        \/ ReadKey(t)
        \/ CheckConfig(t)
        \/ Create(t)
        \/ Assign(t)
        \/ ReturnNew(t)

SpecThreads == Init /\ [][NextThreads]_vars

----------------------------------------------------------------------------
(* Claims *)

\* A step of a request handler: the environment is left alone (SetEnv always
\* changes it).
HandlerStep == env' = env

\* The request handled last ran against the store (not in demo mode).
Live == _supabase # None

C2_OneHeaderOneBatch ==
    [][ (req'.op = "create_order" /\ _supabase' # None /\ resp'.status = 200) =>
          LET p == req'.payload
              id == resp'.body.order_id
              n == Len(p.items)
              rows == [k \in 1..n |-> [order_id |-> id,
                                       product_id |-> p.items[k].product_id,
                                       quantity |-> p.items[k].quantity]]
              header == orders'[Len(orders')]
          IN  /\ Len(orders') = Len(orders) + 1
              /\ SubSeq(orders', 1, Len(orders)) = orders
              /\ header.id = id /\ header.status = "PENDING"
              /\ header.user_id = p.user_id /\ header.address = p.address
              /\ \A k \in 1..Len(orders) : orders[k].id # id
              /\ calls'[1].table = "orders" /\ calls'[1].op = "insert" /\ calls'[1].ok
              /\ Len(calls') = IF n = 0 THEN 1 ELSE 2
              /\ n > 0 => /\ calls'[2].table = "order_items"
                          /\ calls'[2].op = "insert"
                          /\ calls'[2].ok
                          /\ calls'[2].arg = [rows |-> rows]
              /\ order_items' = order_items \o rows
      ]_vars

\* A live create_order with a two-item cart succeeded.
C2_Witness ==
    /\ req.op = "create_order" /\ Live /\ resp.status = 200
    /\ Len(req.payload.items) = 2
    /\ Len(calls) = 2
    /\ Len(orders) = 2

\* C3: the rider_locations table holds at most one row per rider_id, and that
\* row carries the values of the most recent upsert of that rider the store
\* executed; the rows of the other riders are as their own latest upserts left
\* them.
C3_OneRowPerRider ==
    /\ \A a, b \in rider_locations : a.rider_id = b.rider_id => a = b
    /\ \A r \in Riders :
          {x \in rider_locations : x.rider_id = r}
              = IF lastLoc[r] = None THEN {} ELSE {lastLoc[r][1]}
    /\ (req.op = "upsert_rider_location" /\ Live /\ resp.status = 200) =>
          req.loc \in rider_locations

\* Both riders have a row, and the row of one of them replaced an earlier one.
C3_Witness ==
    /\ Cardinality(rider_locations) = 2
    /\ \E r \in Riders : replaced[r]
    /\ req.op = "upsert_rider_location" /\ resp.status = 200

\* C4: while neither the store URL nor a credential has been set in the
\* process, every store-dependent endpoint returns its demo response, issues
\* no remote call and never raises 501, and /test reports the store as not
\* configured.
C4_DemoWhileUnconfigured ==
    ~everSet =>
        /\ resp.status # 501
        /\ calls = <<>>
        /\ orders = <<>> /\ order_items = <<>> /\ rider_locations = {}
        /\ req.op = "list_products" =>
              /\ resp.status = 200
              /\ \A i \in 1..Len(resp.body.products) :
                    resp.body.products[i].id \in {"1", "2", "3"}
        /\ req.op = "update_inventory" =>
              resp = [status |-> 200, body |-> [status |-> "ok", demo |-> TRUE]]
        /\ req.op = "create_order" =>
              /\ resp.status = 200
              /\ resp.body.order_id = "demo-123"
              /\ resp.body.tracking = [status |-> "PENDING", rider |-> None]
        /\ req.op = "get_order" =>
              resp = [status |-> 200,
                      body |-> [order_id |-> req.order_id,
                                status |-> "OUT_FOR_DELIVERY", eta_minutes |-> 12]]
        /\ req.op = "upsert_rider_location" =>
              resp = [status |-> 200, body |-> [status |-> "ok", demo |-> TRUE]]
        /\ req.op = "test_env" =>
              /\ resp.body.supabase = "Not Configured (demo mode)"
              /\ resp.body.SUPABASE_URL = FALSE

\* An unconfigured process answered a rider location upsert.
C4_Witness ==
    /\ ~everSet
    /\ req.op = "upsert_rider_location"
    /\ resp.status = 200

\* C5: in demo mode create_order returns order_id "demo-123" and
\* eta_minutes = clamp(delivery_window_minutes, 10, 20): within [10, 20], the
\* requested window when that is within [10, 20], 10 below it and 20 above
\* it; nothing is persisted.
C5_EtaClamped ==
    (req.op = "create_order" /\ ~Live) =>
        LET w == req.payload.delivery_window_minutes
            e == resp.body.eta_minutes
        IN  /\ resp.status = 200
            /\ resp.body.order_id = "demo-123"
            /\ e >= 10 /\ e <= 20
            /\ (w >= 10 /\ w <= 20) => e = w
            /\ w < 10 => e = 10
            /\ w > 20 => e = 20
            /\ calls = <<>>
            /\ orders = <<>> /\ order_items = <<>>

\* A demo create_order with a negative window was answered with 10 minutes.
C5_Witness ==
    /\ req.op = "create_order" /\ ~Live
    /\ req.payload.delivery_window_minutes = -1
    /\ resp.body.eta_minutes = 10

\* C6: a live get_order performs one read of orders and changes nothing in the
\* store; when the store answers, an identifier matching no row ends in 404
\* NotFound without an order record, and one matching a row returns that row.
C6_GetOrderNotFound ==
    [][ (req'.op = "get_order" /\ _supabase' # None) =>
          LET id == req'.order_id
              found == {k \in 1..Len(orders) : orders[k].id = id}
          IN  /\ orders' = orders
              /\ order_items' = order_items
              /\ rider_locations' = rider_locations
              /\ Len(calls') = 1
              /\ calls'[1].table = "orders" /\ calls'[1].op = "select"
              /\ calls'[1].arg = [id |-> id]
              /\ (calls'[1].ok /\ found = {}) =>
                    resp' = [status |-> 404, body |-> [detail |-> "Order not found"]]
              /\ (calls'[1].ok /\ found # {}) =>
                    /\ resp'.status = 200
                    /\ \E k \in found : resp'.body = orders[k]
      ]_vars

\* A live get_order of an unknown identifier, with rows in the table, got 404.
C6_Witness ==
    /\ req.op = "get_order" /\ Live
    /\ orders # <<>>
    /\ resp.status = 404

\* C7: in demo mode list_products without q and category returns a prefix of
\* Bananas, Milk 1L, Brown Bread with at most limit elements (none when limit
\* is not positive), and all three when limit is 3 or more.
C7_PrefixOfAtMostLimit ==
    (req.op = "list_products" /\ ~Live /\ req.q = None /\ req.category = None) =>
        LET names == [i \in 1..Len(resp.body.products) |-> resp.body.products[i].name]
        IN  /\ resp.status = 200
            /\ Len(names) <= 3
            /\ names = SubSeq(<<Bananas, Milk1L, BrownBread>>, 1, Len(names))
            /\ Len(names) <= req.limit \/ Len(names) = 0
            /\ req.limit >= 3 => Len(names) = 3

\* q occurs in name, letter case ignored
C8_NameHas(q, name) ==
    \E off \in 0..(Len(name) - Len(q)) :
        \A k \in 1..Len(q) : LowerChar(name[off + k]) = LowerChar(q[k])

C9_OrphanedHeader ==
    [][ (req'.op = "create_order" /\ _supabase' # None /\ resp'.status # 200) =>
          /\ resp'.status = 500
          /\ DOMAIN resp'.body = {"detail"}
          /\ rider_locations' = rider_locations
          /\ calls'[1].table = "orders" /\ calls'[1].op = "insert"
          /\ ~calls'[1].ok =>
                /\ Len(calls') = 1
                /\ orders' = orders
                /\ order_items' = order_items
          /\ calls'[1].ok =>
                /\ Len(calls') = 2
                /\ calls'[2].table = "order_items" /\ ~calls'[2].ok
                /\ Len(orders') = Len(orders) + 1
                /\ SubSeq(orders', 1, Len(orders)) = orders
                /\ orders'[Len(orders')].status = "PENDING"
                /\ order_items' = order_items
                /\ \A k \in 1..Len(order_items') :
                      order_items'[k].order_id # orders'[Len(orders')].id
      ]_vars

\* The items insert of a live create_order failed after its header insert.
C9_Witness ==
    /\ req.op = "create_order" /\ Live /\ resp.status = 500
    /\ Len(calls) = 2 /\ calls[1].ok /\ ~calls[2].ok
    /\ Len(orders) = 1 /\ order_items = <<>>

\* C10: with concurrent callers of get_supabase() in a configured process,
\* create_client is invoked at most once, _supabase is assigned at most once,
\* and all callers receive the same handle.
C10_WriteOnce ==
    Configured(env) =>
        /\ clients <= 1
        /\ assigns <= 1
        /\ \A t, u \in Threads :
              (ret[t] # None /\ ret[u] # None) => ret[t] = ret[u]

====
